---- MODULE Spec2Model ----
(***************************************************************************)
(* A model of tmdb_index.py: the keyed-table operations (align_id_col,     *)
(* update_or_append, change_summary), the change-feed date planner and     *)
(* replay loop, the export flag, the external-id refresh selection and     *)
(* the process pipeline.                                                   *)
(*                                                                         *)
(* A polars DataFrame is a record [schema, rows]: schema is the ordered    *)
(* sequence of [name, dtype] columns, rows the sequence of rows, each a    *)
(* function from column name to value.  Every cell value is an integer:    *)
(* Null stands for polars' null, booleans are 0 / 1, a date is a day       *)
(* number and a datetime a tick number (TicksPerDay ticks to the day).     *)
(* A call that raises returns [error |-> <exception>].                     *)
(***************************************************************************)
EXTENDS Integers, Sequences, FiniteSets, TLC

VARIABLES
    call,       \* pure-function harness: the function applied ("input" before)
    arg_df,     \* its first argument (df / df_old)
    arg_other,  \* its second argument (other / df_new)
    ret,        \* its return value
    run_type,   \* --tmdb-type
    varying,    \* the upstream collaborator whose answers vary freely
    stable,     \* whether the upstream answers a repeated request the same way
    file,       \* the persisted frame (NoFile before the first write)
    now,        \* the clock, in ticks
    pc,         \* where the run is: idle, replay, export, external, check, failed
    cfg,        \* the options the run has read so far: days, backfill and refresh limits
    df_in,      \* the frame main loaded
    df_prev,    \* the frame before the last step of process
    run_df,     \* the frame process holds
    planned,    \* what tmdb_changes_backfill_date_range returned to the run
    plan,       \* the dates insert_tmdb_latest_changes still has to replay
    fetched,    \* the dates passed to tmdb_changes in this run
    memo,       \* the upstream answers: the export and lookups of the run, and when
                \* stable every answer given so far
    prev        \* the previous run, when it wrote its frame (kept when stable)

harness_vars == <<call, arg_df, arg_other, ret>>
run_vars == <<run_type, varying, stable, file, now, pc, cfg, df_in, df_prev, run_df, planned, plan, fetched, memo, prev>>
vars == <<harness_vars, run_vars>>

----------------------------------------------------------------------------
(* Bounds of the model.                                                    *)

MaxId == 2
MaxRows == 2
MaxVal == 1
MaxFeedId == 1
MaxFeedLen == 1
MaxDay == 1
MaxDaysLimit == 2
MaxLag == 2
MaxLimit == 1

----------------------------------------------------------------------------
(* Values, schemas and frames.                                             *)

Null == -1

Error(kind) == [error |-> kind]
IsError(x) == "error" \in DOMAIN x

Col(name, dtype) == [name |-> name, dtype |-> dtype]
names(schema) == [i \in DOMAIN schema |-> schema[i].name]
NameSet(schema) == {schema[i].name : i \in DOMAIN schema}
columns(df) == names(df.schema)
height(df) == Len(df.rows)
is_empty(df) == height(df) = 0
IdColumn(rows) == [i \in DOMAIN rows |-> rows[i].id]

RECURSIVE concat_all(_)
concat_all(ss) == IF ss = <<>> THEN <<>> ELSE Head(ss) \o concat_all(Tail(ss))

RECURSIVE filter_idx(_, _, _)
filter_idx(s, keep, i) ==
    IF i > Len(s) THEN <<>>
    ELSE (IF i \in keep THEN <<s[i]>> ELSE <<>>) \o filter_idx(s, keep, i + 1)

\* DataFrame.select(names): the named columns, in the order given.
select(df, ns) ==
    [schema |-> [k \in DOMAIN ns |->
                    df.schema[CHOOSE i \in DOMAIN df.schema : df.schema[i].name = ns[k]]],
     rows |-> [r \in DOMAIN df.rows |->
                    [n \in {ns[k] : k \in DOMAIN ns} |-> df.rows[r][n]]]]

\* DataFrame.drop(names): the frame without the named columns.
drop(df, gone) ==
    select(df, names(SelectSeq(df.schema, LAMBDA c : c.name \notin gone)))

\* DataFrame.match_to_schema(schema, missing_columns="insert"): the columns of
\* schema in schema's order, a column the frame lacks inserted as nulls.
match_to_schema(df, schema) ==
    [schema |-> schema,
     rows |-> [r \in DOMAIN df.rows |->
                    [n \in NameSet(schema) |->
                        IF n \in NameSet(df.schema) THEN df.rows[r][n] ELSE Null]]]

\* Join keys: a null key matches nothing, not even another null.
join_eq(a, b) == a # Null /\ b # Null /\ a = b

\* The mutant of left_join_id: the join matches no row, so the right columns are
\* null in every row.
left_join_id_no_match(left, right) ==
    LET schema == left.schema \o SelectSeq(right.schema, LAMBDA c : c.name # "id")
    IN [schema |-> schema,
        rows |-> [i \in DOMAIN left.rows |->
                    [n \in NameSet(schema) |->
                        IF n \in NameSet(left.schema) THEN left.rows[i][n] ELSE Null]]]

\* left.join(right, on="id", how="left", coalesce=True): every left row in left
\* order, once per matching right row (right order), or once with nulls.
left_join_id(left, right) ==
    LET extra == SelectSeq(right.schema, LAMBDA c : c.name # "id")
        schema == left.schema \o extra
        lnames == NameSet(left.schema)
        matches(l) == SelectSeq(right.rows, LAMBDA r : join_eq(l.id, r.id))
        expand(l) ==
            LET m == matches(l) IN
            IF m = <<>>
            THEN <<[n \in NameSet(schema) |-> IF n \in lnames THEN l[n] ELSE Null]>>
            ELSE [k \in DOMAIN m |->
                    [n \in NameSet(schema) |-> IF n \in lnames THEN l[n] ELSE m[k][n]]]
    IN [schema |-> schema,
        rows |-> concat_all([i \in DOMAIN left.rows |-> expand(left.rows[i])])]

\* The mutant of unique_keep_last: no row is dropped.
unique_keep_all(rows) == rows

\* The mutant of unique_keep_last: keep="first".
unique_keep_first(rows) ==
    filter_idx(rows, {i \in DOMAIN rows :
                        \A j \in DOMAIN rows : j < i => rows[j].id # rows[i].id}, 1)

\* unique(subset="id", keep="last", maintain_order=True): of the rows sharing an
\* id the last one is kept, and the kept rows stay in the order they were in.
unique_keep_last(rows) ==
    filter_idx(rows, {i \in DOMAIN rows :
                        \A j \in DOMAIN rows : j > i => rows[j].id # rows[i].id}, 1)

----------------------------------------------------------------------------
(* align_id_col                                                            *)

max_id_of(df) ==
    LET ids == {df.rows[i].id : i \in DOMAIN df.rows} \ {Null}
    IN CHOOSE m \in ids : \A x \in ids : x <= m

\* The mutant of id_range: the range stops one short of max_id.
id_range_short(max_id) ==
    [schema |-> <<Col("id", "UInt32")>>,
     rows |-> [i \in 1..max_id |-> [id |-> i - 1]]]

\* pl.int_range(end=max_id + 1).to_frame("id")
id_range(max_id) ==
    [schema |-> <<Col("id", "UInt32")>>,
     rows |-> [i \in 1..(max_id + 1) |-> [id |-> i - 1]]]

align_id_col(df) ==
    IF is_empty(df) THEN df
    ELSE IF "id" \notin NameSet(df.schema) THEN Error("ColumnNotFoundError")
    ELSE IF \A i \in DOMAIN df.rows : df.rows[i].id = Null THEN Error("TypeError")
    ELSE select(left_join_id(id_range(max_id_of(df)), df), columns(df))

----------------------------------------------------------------------------
(* update_or_append                                                        *)

RECURSIVE union_schema(_, _)
union_schema(out, other) ==
    IF other = <<>> THEN out
    ELSE IF Head(other).name \in NameSet(out)
         THEN union_schema(out, Tail(other))
         ELSE union_schema(Append(out, Head(other)), Tail(other))

\* The mutant of schema_conflict: the declared types are never compared.
schema_conflict_unchecked(a, b) == FALSE

schema_conflict(a, b) ==
    \E i \in DOMAIN a, j \in DOMAIN b : a[i].name = b[j].name /\ a[i].dtype # b[j].dtype

\* The mutant of update_or_append: a null of other does not replace df's value
\* (the conflict is resolved by coalescing other's value with df's).
update_or_append_coalesce(df, other) ==
    LET output_schema == union_schema(df.schema, other.schema) IN
    IF schema_conflict(df.schema, other.schema) THEN Error("AssertionError")
    ELSE IF "id" \notin NameSet(output_schema) THEN Error("AssertionError")
    ELSE IF is_empty(df) THEN match_to_schema(other, output_schema)
    ELSE IF "id" \notin NameSet(other.schema) THEN Error("ColumnNotFoundError")
    ELSE LET df2 == match_to_schema(df, output_schema)
             other2 == match_to_schema(other, output_schema)
             old(r) == SelectSeq(df2.rows, LAMBDA d : join_eq(r.id, d.id))
             merged(r) == [n \in NameSet(output_schema) |->
                            IF r[n] = Null /\ old(r) # <<>> THEN old(r)[1][n] ELSE r[n]]
         IN [schema |-> output_schema,
             rows |-> unique_keep_last(
                        df2.rows \o [i \in DOMAIN other2.rows |-> merged(other2.rows[i])])]

update_or_append(df, other) ==
    LET output_schema == union_schema(df.schema, other.schema) IN
    IF schema_conflict(df.schema, other.schema) THEN Error("AssertionError")
    ELSE IF "id" \notin NameSet(output_schema) THEN Error("AssertionError")
    ELSE IF is_empty(df) THEN match_to_schema(other, output_schema)
    ELSE IF "id" \notin NameSet(other.schema) THEN Error("ColumnNotFoundError")
    ELSE LET df2 == match_to_schema(df, output_schema)
             base_only == drop(df2, NameSet(other.schema) \ {"id"})
             other2 == select(left_join_id(other, base_only), names(output_schema))
         IN [schema |-> output_schema,
             rows |-> unique_keep_last(df2.rows \o other2.rows)]

----------------------------------------------------------------------------
(* change_summary                                                          *)

\* how="anti" / how="semi" on "id": the left rows without / with a match.
anti_height(l, r) ==
    Cardinality({i \in DOMAIN l.rows :
                    ~ \E j \in DOMAIN r.rows : join_eq(l.rows[i].id, r.rows[j].id)})
semi_height(l, r) ==
    Cardinality({i \in DOMAIN l.rows :
                    \E j \in DOMAIN r.rows : join_eq(l.rows[i].id, r.rows[j].id)})

\* df_old.join(df_new, on=df_old.columns, how="inner").height: the pairs of rows
\* equal on every column of df_old, a null in a key column matching nothing.
inner_height(l, r) ==
    Cardinality({p \in (DOMAIN l.rows) \X (DOMAIN r.rows) :
                    \A n \in NameSet(l.schema) :
                        join_eq(l.rows[p[1]][n], r.rows[p[2]][n])})

change_summary(df_old, df_new) ==
    IF ~ ("id" \in NameSet(df_old.schema) /\ NameSet(df_old.schema) \subseteq NameSet(df_new.schema))
    THEN Error("ColumnNotFoundError")
    ELSE [added |-> anti_height(df_new, df_old),
          removed |-> anti_height(df_old, df_new),
          updated |-> semi_height(df_old, df_new) - inner_height(df_old, df_new)]

----------------------------------------------------------------------------
(* Dates and datetimes.  A date is a day number (days after 2012-10-01), a *)
(* datetime a tick number: TicksPerDay ticks to the day.                   *)

TicksPerDay == 2

EpochMovie == 4
EpochTv == 91
EpochPerson == 4

TmdbTypes == {"movie", "tv", "person"}

TMDB_CHANGES_EPOCH(tmdb_type) ==
    CASE tmdb_type = "movie" -> EpochMovie
      [] tmdb_type = "tv" -> EpochTv
      [] tmdb_type = "person" -> EpochPerson

\* datetime.date() / date.today() of a clock value.
date_of(t) == t \div TicksPerDay

\* The datetime a date is cast to when compared with a datetime: midnight.
datetime_of(d) == d * TicksPerDay

\* The mutant of dt_round_1d: the datetime is truncated to its day.
dt_truncate_1d(t) == (t \div TicksPerDay) * TicksPerDay

\* Expr.dt.round("1d"): to the nearest midnight, noon and later going up.
dt_round_1d(t) == ((2 * t + TicksPerDay) \div (2 * TicksPerDay)) * TicksPerDay

----------------------------------------------------------------------------
(* tmdb_changes and the backfill date range.                               *)

ChangesSchema == <<Col("id", "UInt32"), Col("date", "Date"), Col("adult", "Boolean")>>

\* The mutant of tmdb_changes: the epoch assertion is left out.
tmdb_changes_no_assert(tmdb_type, d, response) ==
    IF response.status # 200 THEN Error("HTTPError")
    ELSE LET rows == [i \in DOMAIN response.results |->
                        [id |-> response.results[i].id, date |-> d,
                         adult |-> response.results[i].adult]]
         IN [schema |-> ChangesSchema,
             rows |-> unique_keep_last(SelectSeq(rows, LAMBDA r : r.id # Null))]

\* tmdb_changes(tmdb_type, date): response is what the change feed answers for
\* that date, [status, results], results the list of {id, adult}.
tmdb_changes(tmdb_type, d, response) ==
    IF d < TMDB_CHANGES_EPOCH(tmdb_type) THEN Error("AssertionError")
    ELSE IF response.status # 200 THEN Error("HTTPError")
    ELSE LET rows == [i \in DOMAIN response.results |->
                        [id |-> response.results[i].id, date |-> d,
                         adult |-> response.results[i].adult]]
         IN [schema |-> ChangesSchema,
             rows |-> unique_keep_last(SelectSeq(rows, LAMBDA r : r.id # Null))]

\* df["date"].max(): the greatest non-null date, Null when there is none.
max_date_of(df) ==
    LET ds == {df.rows[i].date : i \in DOMAIN df.rows} \ {Null}
    IN IF ds = {} THEN Null ELSE CHOOSE m \in ds : \A x \in ds : x <= m

\* The mutant of start_date_of: the day before the maximum is not replayed.
start_date_no_overlap(df, tmdb_type) ==
    IF is_empty(df) \/ "date" \notin NameSet(df.schema)
    THEN TMDB_CHANGES_EPOCH(tmdb_type)
    ELSE max_date_of(df)

\* The start date of tmdb_changes_backfill_date_range.
start_date_of(df, tmdb_type) ==
    IF is_empty(df) \/ "date" \notin NameSet(df.schema)
    THEN TMDB_CHANGES_EPOCH(tmdb_type)
    ELSE max_date_of(df) - 1

\* assert max_date: a non-empty frame whose dates are all null has no maximum.
date_range_raises(df) ==
    ~ is_empty(df) /\ "date" \in NameSet(df.schema) /\ max_date_of(df) = Null

\* tmdb_changes_backfill_date_range(df, tmdb_type), today being date.today().
tmdb_changes_backfill_date_range(df, tmdb_type, today) ==
    IF date_range_raises(df) THEN Error("AssertionError")
    ELSE LET start_date == start_date_of(df, tmdb_type)
             days == (today - start_date) + 1
         IN [i \in 1..days |-> start_date + (i - 1)]

\* The mutant of take: the latest dates of the plan instead of the earliest.
take_last(s, n) == SubSeq(s, (IF n < Len(s) THEN Len(s) - n ELSE 0) + 1, Len(s))

\* date_range[:days_limit] for days_limit >= 0.
take(s, n) == SubSeq(s, 1, IF n < Len(s) THEN n ELSE Len(s))

\* One iteration of the loop of insert_tmdb_latest_changes.
replay_date(df, tmdb_type, d, response) ==
    LET changes == tmdb_changes(tmdb_type, d, response) IN
    IF IsError(changes) THEN changes ELSE update_or_append(df, changes)

----------------------------------------------------------------------------
(* tmdb_export and update_tmdb_export_flag.                                *)

ExportSchema == <<Col("id", "UInt32"), Col("in_export", "Boolean")>>

RECURSIVE sort_ids(_)
sort_ids(s) ==
    IF s = <<>> THEN <<>>
    ELSE LET k == CHOOSE i \in DOMAIN s : \A j \in DOMAIN s : s[i] <= s[j]
         IN <<s[k]>> \o sort_ids(filter_idx(s, DOMAIN s \ {k}, 1))

\* _tmdb_raw_export: the ids of one export file, sorted, in_export = True.
tmdb_raw_export(ids) ==
    [schema |-> ExportSchema,
     rows |-> [i \in DOMAIN ids |-> [id |-> sort_ids(ids)[i], in_export |-> 1]]]

\* tmdb_export(tmdb_type): exports holds the id lists of the export files.
tmdb_export(tmdb_type, exports) ==
    IF tmdb_type = "movie"
    THEN tmdb_raw_export(exports.movie \o exports.collection)
    ELSE IF tmdb_type = "tv" THEN tmdb_raw_export(exports.tv_series)
    ELSE tmdb_raw_export(exports.person)

\* The mutant of update_tmdb_export_flag: fill_null(False) is left out.
update_tmdb_export_flag_no_fill(df, export) ==
    IF "id" \notin NameSet(df.schema) THEN Error("ColumnNotFoundError")
    ELSE LET col_names == IF "in_export" \in NameSet(df.schema) THEN columns(df)
                          ELSE Append(columns(df), "in_export")
             joined == left_join_id(select(df, <<"id">>), export)
             schema == IF "in_export" \in NameSet(df.schema) THEN df.schema
                       ELSE Append(df.schema, Col("in_export", "Boolean"))
         IN IF height(joined) # height(df) THEN Error("ShapeError")
            ELSE [schema |-> schema,
                  rows |-> [i \in DOMAIN df.rows |->
                              [n \in {col_names[k] : k \in DOMAIN col_names} |->
                                  IF n = "in_export" THEN joined.rows[i].in_export
                                  ELSE df.rows[i][n]]]]

\* update_tmdb_export_flag(df, tmdb_type), export being tmdb_export(tmdb_type).
update_tmdb_export_flag(df, export) ==
    IF "id" \notin NameSet(df.schema) THEN Error("ColumnNotFoundError")
    ELSE LET col_names == IF "in_export" \in NameSet(df.schema) THEN columns(df)
                          ELSE Append(columns(df), "in_export")
             joined == left_join_id(select(df, <<"id">>), export)
             in_export_col == [i \in DOMAIN joined.rows |->
                                IF joined.rows[i].in_export = Null THEN 0
                                ELSE joined.rows[i].in_export]
             schema == IF "in_export" \in NameSet(df.schema) THEN df.schema
                       ELSE Append(df.schema, Col("in_export", "Boolean"))
         IN IF Len(in_export_col) # height(df) THEN Error("ShapeError")
            ELSE [schema |-> schema,
                  rows |-> [i \in DOMAIN df.rows |->
                              [n \in {col_names[k] : k \in DOMAIN col_names} |->
                                  IF n = "in_export" THEN in_export_col[i]
                                  ELSE df.rows[i][n]]]]

----------------------------------------------------------------------------
(* tmdb_external_ids and insert_tmdb_external_ids.                         *)

EXTERNAL_IDS_RESPONSE_SCHEMA(tmdb_type) ==
    IF tmdb_type = "movie"
    THEN <<Col("success", "Boolean"), Col("id", "UInt32"), Col("retrieved_at", "Datetime"),
           Col("imdb_numeric_id", "UInt32"), Col("wikidata_numeric_id", "UInt32")>>
    ELSE <<Col("success", "Boolean"), Col("id", "UInt32"), Col("retrieved_at", "Datetime"),
           Col("imdb_numeric_id", "UInt32"), Col("tvdb_id", "UInt32"),
           Col("wikidata_numeric_id", "UInt32")>>

IMDB_ID_PATTERN(tmdb_type) == IF tmdb_type = "person" THEN "nm" ELSE "tt"

\* re.search(prefix + r"(\d+)", s): s is [prefix, num], an empty prefix being
\* the absent or empty string.
parse_numeric_id(s, prefix) ==
    IF s.prefix = "" THEN Null
    ELSE IF s.prefix = prefix THEN s.num
    ELSE Null

\* The mutant of tmdb_external_ids: every error status is taken for "not
\* found".
tmdb_external_ids_any_error(tmdb_type, tmdb_id, response, now_t) ==
    LET found == response.status = 200
        row == [id |-> tmdb_id,
                success |-> IF found THEN 1 ELSE 0,
                retrieved_at |-> now_t,
                imdb_numeric_id |->
                   IF found THEN parse_numeric_id(response.imdb_id, IMDB_ID_PATTERN(tmdb_type))
                   ELSE Null,
                tvdb_id |->
                   IF found /\ response.tvdb_id # Null /\ response.tvdb_id # 0
                   THEN response.tvdb_id ELSE Null,
                wikidata_numeric_id |->
                   IF found THEN parse_numeric_id(response.wikidata_id, "Q") ELSE Null]
    IN [n \in NameSet(EXTERNAL_IDS_RESPONSE_SCHEMA(tmdb_type)) |-> row[n]]

\* tmdb_external_ids(tmdb_type, tmdb_id): response is what the lookup answers,
\* [status, imdb_id, wikidata_id, tvdb_id]; the result row, or the error raised.
tmdb_external_ids(tmdb_type, tmdb_id, response, now_t) ==
    IF response.status # 200 /\ response.status # 404 THEN Error("HTTPError")
    ELSE LET found == response.status = 200
             row == [id |-> tmdb_id,
                     success |-> IF found THEN 1 ELSE 0,
                     retrieved_at |-> now_t,
                     imdb_numeric_id |->
                        IF found THEN parse_numeric_id(response.imdb_id, IMDB_ID_PATTERN(tmdb_type))
                        ELSE Null,
                     tvdb_id |->
                        IF found /\ response.tvdb_id # Null /\ response.tvdb_id # 0
                        THEN response.tvdb_id ELSE Null,
                     wikidata_numeric_id |->
                        IF found THEN parse_numeric_id(response.wikidata_id, "Q") ELSE Null]
         IN [n \in NameSet(EXTERNAL_IDS_RESPONSE_SCHEMA(tmdb_type)) |-> row[n]]

\* Expr.rank("ordinal"): the position in ascending order, ties in row order; a
\* null has no rank.
rank_ordinal(vals) ==
    [i \in DOMAIN vals |->
        IF vals[i] = Null THEN Null
        ELSE 1 + Cardinality({j \in DOMAIN vals :
                    /\ vals[j] # Null
                    /\ (vals[j] < vals[i] \/ (vals[j] = vals[i] /\ j < i))})]

\* Boolean expressions over a column hold 1, 0 or Null (Kleene logic).
k_bool(b) == IF b THEN 1 ELSE 0
k_le(a, n) == IF a = Null THEN Null ELSE k_bool(a <= n)
k_and(a, b) == IF a = 0 \/ b = 0 THEN 0 ELSE IF a = Null \/ b = Null THEN Null ELSE 1
k_or(a, b) == IF a = 1 \/ b = 1 THEN 1 ELSE IF a = Null \/ b = Null THEN Null ELSE 0

column(df, n) == [i \in DOMAIN df.rows |-> df.rows[i][n]]

\* pl.col("date") >= pl.col("retrieved_at").dt.round("1d")
changed_predicate(df) ==
    [i \in DOMAIN df.rows |->
        IF df.rows[i].date = Null \/ df.rows[i].retrieved_at = Null THEN Null
        ELSE k_bool(datetime_of(df.rows[i].date) >= dt_round_1d(df.rows[i].retrieved_at))]

\* The mutant of backfill_predicate: the quota is not applied.
backfill_predicate_unbounded(df, backfill_limit) ==
    IF "retrieved_at" \in NameSet(df.schema)
    THEN [i \in DOMAIN df.rows |-> k_bool(df.rows[i].retrieved_at = Null)]
    ELSE [i \in DOMAIN df.rows |-> k_bool(df.rows[i].id # Null)]

\* The Backfill predicate: the never-retrieved rows of rank <= backfill_limit,
\* or without a retrieved_at column the rows whose id has rank <= backfill_limit.
backfill_predicate(df, backfill_limit) ==
    IF "retrieved_at" \in NameSet(df.schema)
    THEN LET is_not_null == [i \in DOMAIN df.rows |-> k_bool(df.rows[i].retrieved_at # Null)]
             rank == rank_ordinal(is_not_null)
         IN [i \in DOMAIN df.rows |->
                k_and(k_bool(df.rows[i].retrieved_at = Null), k_le(rank[i], backfill_limit))]
    ELSE LET rank == rank_ordinal(column(df, "id"))
         IN [i \in DOMAIN df.rows |-> k_le(rank[i], backfill_limit)]

\* The mutant of refresh_predicate: a dense rank, rows tied on retrieved_at
\* sharing their rank.
refresh_predicate_dense(df, refresh_limit) ==
    LET vals == column(df, "retrieved_at")
        rank == [i \in DOMAIN vals |->
                    IF vals[i] = Null THEN Null
                    ELSE 1 + Cardinality({vals[j] : j \in {k \in DOMAIN vals :
                                            vals[k] # Null /\ vals[k] < vals[i]}})]
    IN [i \in DOMAIN df.rows |-> k_le(rank[i], refresh_limit)]

\* pl.col("retrieved_at").rank("ordinal") <= refresh_limit
refresh_predicate(df, refresh_limit) ==
    LET rank == rank_ordinal(column(df, "retrieved_at"))
    IN [i \in DOMAIN df.rows |-> k_le(rank[i], refresh_limit)]

filter_predicates(df, backfill_limit, refresh_limit) ==
    (IF "date" \in NameSet(df.schema) /\ "retrieved_at" \in NameSet(df.schema)
     THEN <<changed_predicate(df)>> ELSE <<>>)
    \o (IF backfill_limit > 0 THEN <<backfill_predicate(df, backfill_limit)>> ELSE <<>>)
    \o (IF refresh_limit > 0 /\ "retrieved_at" \in NameSet(df.schema)
        THEN <<refresh_predicate(df, refresh_limit)>> ELSE <<>>)

RECURSIVE or_all(_, _)
or_all(preds, i) ==
    IF Len(preds) = 1 THEN preds[1][i]
    ELSE k_or(preds[1][i], or_all(Tail(preds), i))

\* df.filter(filter_predicate)["id"]: the ids to look up, in row order.
ids_to_update(df, backfill_limit, refresh_limit) ==
    LET preds == filter_predicates(df, backfill_limit, refresh_limit)
    IN IF preds = <<>> THEN <<>>
       ELSE IdColumn(filter_idx(df.rows, {i \in DOMAIN df.rows : or_all(preds, i) = 1}, 1))

\* insert_tmdb_external_ids: responses maps each id to what its lookup answers
\* and now_t is the clock the lookups read.
insert_tmdb_external_ids(df, tmdb_type, responses, now_t, backfill_limit, refresh_limit) ==
    IF filter_predicates(df, backfill_limit, refresh_limit) = <<>> THEN df
    ELSE IF "id" \notin NameSet(df.schema) THEN Error("ColumnNotFoundError")
    ELSE LET ids == ids_to_update(df, backfill_limit, refresh_limit)
             data == [i \in DOMAIN ids |->
                        tmdb_external_ids(tmdb_type, ids[i], responses[ids[i]], now_t)]
         IN IF \E i \in DOMAIN data : IsError(data[i]) THEN Error("HTTPError")
            ELSE IF data = <<>> THEN df
            ELSE LET merged == update_or_append(df,
                                 [schema |-> EXTERNAL_IDS_RESPONSE_SCHEMA(tmdb_type),
                                  rows |-> data])
                 IN IF IsError(merged) THEN merged ELSE align_id_col(merged)

----------------------------------------------------------------------------
(* The pure-function harness: the arguments are drawn from bounded frames  *)
(* with unique non-null ids, and one action applies each function.         *)

Ids == 0..MaxId
Vals == {Null} \cup 1..MaxVal

IdSeqs ==
    {s \in UNION {[1..n -> Ids] : n \in 0..MaxRows} :
        \A i, j \in DOMAIN s : i # j => s[i] # s[j]}

Layouts ==
    { <<>>,
      <<Col("id", "UInt32")>>,
      <<Col("id", "UInt32"), Col("a", "Int64"), Col("b", "Int64")>>,
      <<Col("c", "Int64"), Col("id", "UInt32"), Col("b", "Int64")>>,
      <<Col("id", "UInt32"), Col("b", "String")>> }

FramesOf(schema) ==
    IF schema = <<>> THEN {[schema |-> schema, rows |-> <<>>]}
    ELSE LET data == NameSet(schema) \ {"id"} IN
         UNION {
            {[schema |-> schema,
              rows |-> [i \in DOMAIN s |->
                            [n \in NameSet(schema) |-> IF n = "id" THEN s[i] ELSE v[i][n]]]]
                : v \in [DOMAIN s -> [data -> Vals]]}
            : s \in IdSeqs}

Frames == UNION {FramesOf(l) : l \in Layouts}

NoReturn == [none |-> TRUE]
Unknown == [status |-> 0]
NoFile == [absent |-> TRUE]
NoFrame == [schema |-> <<>>, rows |-> <<>>]
NoCfg == [days_limit |-> 0, backfill_limit |-> 0, refresh_limit |-> 0]
NoPrev == [valid |-> FALSE]
\* The days after the epoch a feed answer is remembered for.
FeedDays == IF MaxLag > MaxDay THEN MaxLag ELSE MaxDay
NoMemo ==
    [feed |-> [d \in 0..FeedDays |-> Unknown],
     exports |-> Unknown,
     lookup |-> [i \in 0..MaxFeedId |-> Unknown]]

InitPure ==
    /\ call = "input"
    /\ arg_df \in Frames
    /\ arg_other \in Frames
    /\ ret = NoReturn
    /\ run_type = "movie" /\ varying = "feed" /\ stable = FALSE /\ file = NoFile /\ now = 0 /\ pc = "idle"
    /\ cfg = NoCfg /\ df_in = NoFrame /\ df_prev = NoFrame /\ run_df = NoFrame
    /\ planned = <<>> /\ plan = <<>> /\ fetched = <<>> /\ memo = NoMemo /\ prev = NoPrev

CallUpdateOrAppend ==
    /\ call = "input"
    /\ call' = "update_or_append"
    /\ ret' = update_or_append(arg_df, arg_other)
    /\ UNCHANGED <<arg_df, arg_other, run_vars>>

CallAlignIdCol ==
    /\ call = "input"
    /\ call' = "align_id_col"
    /\ ret' = align_id_col(arg_df)
    /\ UNCHANGED <<arg_df, arg_other, run_vars>>

CallChangeSummary ==
    /\ call = "input"
    /\ call' = "change_summary"
    /\ ret' = change_summary(arg_df, arg_other)
    /\ UNCHANGED <<arg_df, arg_other, run_vars>>

NextPure ==
    \/ CallUpdateOrAppend
    \/ CallAlignIdCol
    \/ CallChangeSummary

SpecPure == InitPure /\ [][NextPure]_vars

----------------------------------------------------------------------------
(* The command-line run: main loads the persisted frame, process replays   *)
(* the change feed date by date, aligns, sets the export flag, refreshes   *)
(* the external ids, and main checks the height and writes the frame.      *)
(* What the three upstream services answer is drawn at each request; when  *)
(* `stable` holds, a request repeated in the same behaviour gets the       *)
(* answer it got before (memo remembers it).  In one behaviour one of the  *)
(* three services (`varying`) answers anything the bounds allow, while the *)
(* other two answer plainly: the feed delivers well-formed events, the     *)
(* export lists every id, and no lookup quota is set.                      *)


FeedIds == 0..MaxFeedId
FeedEvents == [id : FeedIds \cup {Null}, adult : {0, 1}]
PlainEvents == [id : FeedIds, adult : {0}]
Pages(events) == UNION {[1..n -> events] : n \in 0..MaxFeedLen}
\* The answers of the change feed: any page or a server error when the feed
\* is the collaborator that varies, a page of well-formed events otherwise.
FeedResponses(v) ==
    IF v = "feed"
    THEN {[status |-> 500, results |-> <<>>]}
         \cup {[status |-> 200, results |-> r] : r \in Pages(FeedEvents)}
    ELSE {[status |-> 200, results |-> r] : r \in Pages(PlainEvents)}

RECURSIVE ascending(_)
ascending(S) ==
    IF S = {} THEN <<>>
    ELSE LET m == CHOOSE x \in S : \A y \in S : x <= y IN <<m>> \o ascending(S \ {m})

\* The id lists of the export files a run downloads.
ExportFiles(v, t) ==
    LET listed == IF v = "export" THEN SUBSET FeedIds ELSE {FeedIds}
        collections == IF v = "export" THEN SUBSET {0} ELSE {{}}
    IN IF t = "movie"
       THEN {[movie |-> ascending(m), collection |-> ascending(c)] :
               m \in listed, c \in collections}
       ELSE IF t = "tv" THEN {[tv_series |-> ascending(m)] : m \in listed}
       ELSE {[person |-> ascending(m)] : m \in listed}

NoString == [prefix |-> "", num |-> 0]
ExternalIdsResponses(t) ==
    { [status |-> 500, imdb_id |-> NoString, wikidata_id |-> NoString, tvdb_id |-> Null],
      [status |-> 404, imdb_id |-> NoString, wikidata_id |-> NoString, tvdb_id |-> Null],
      [status |-> 200, imdb_id |-> NoString, wikidata_id |-> NoString, tvdb_id |-> Null],
      [status |-> 200, imdb_id |-> [prefix |-> IMDB_ID_PATTERN(t), num |-> 1],
       wikidata_id |-> [prefix |-> "Q", num |-> 3], tvdb_id |-> IF t = "movie" THEN Null ELSE 2] }

DaysLimits == 1..MaxDaysLimit
\* The quotas of the lookup step: no quota unless the lookups are the
\* collaborator that varies.
Limits(v) == IF v = "lookup" THEN 0..MaxLimit ELSE {0}

\* The upstream collaborator whose answers vary freely in a behaviour.
Collaborators == {"feed", "export", "lookup"}

today == date_of(now)
Epoch == TMDB_CHANGES_EPOCH(run_type)
LastDay == Epoch + MaxDay

InitRun(s) ==
    /\ run_type \in TmdbTypes
    /\ varying \in Collaborators
    /\ stable = s
    /\ file = NoFile
    /\ now = datetime_of(TMDB_CHANGES_EPOCH(run_type))
    /\ pc = "idle"
    /\ cfg = NoCfg
    /\ df_in = NoFrame
    /\ df_prev = NoFrame
    /\ run_df = NoFrame
    /\ planned = <<>>
    /\ plan = <<>>
    /\ fetched = <<>>
    /\ memo = NoMemo
    /\ prev = NoPrev
    /\ call = "input" /\ arg_df = NoFrame /\ arg_other = NoFrame /\ ret = NoReturn

Init == InitRun(FALSE)

\* main, up to the first request of process: the frame is loaded (an empty
\* frame with an id column when there is no file), a movie frame loses its
\* tvdb_id column, and insert_tmdb_latest_changes plans its dates.
Start(days_limit) ==
    /\ pc = "idle"
    /\ LET loaded == IF file = NoFile
                     THEN [schema |-> <<Col("id", "UInt32")>>, rows |-> <<>>]
                     ELSE file
           frame == IF run_type = "movie" /\ "tvdb_id" \in NameSet(loaded.schema)
                    THEN drop(loaded, {"tvdb_id"}) ELSE loaded
           date_range == tmdb_changes_backfill_date_range(frame, run_type, today)
       IN /\ df_in' = frame
          /\ run_df' = frame
          /\ df_prev' = frame
          /\ IF date_range_raises(frame)
             THEN pc' = "failed" /\ planned' = <<>> /\ plan' = <<>>
             ELSE /\ pc' = "replay"
                  /\ planned' = date_range
                  /\ plan' = take(date_range, days_limit)
    /\ cfg' = [NoCfg EXCEPT !.days_limit = days_limit]
    /\ fetched' = <<>>
    /\ UNCHANGED <<run_type, varying, stable, file, now, memo, prev>>
    /\ UNCHANGED harness_vars

\* One iteration of the loop of insert_tmdb_latest_changes: the feed of the
\* next planned date is fetched and merged.
ReplayDate ==
    /\ pc = "replay"
    /\ plan # <<>>
    /\ LET d == Head(plan) IN
       /\ fetched' = Append(fetched, d)
       /\ plan' = Tail(plan)
       /\ df_prev' = run_df
       /\ IF d < Epoch
          THEN /\ pc' = "failed"
               /\ UNCHANGED <<run_df, memo>>
          ELSE \E response \in FeedResponses(varying) :
                /\ stable => memo.feed[d - Epoch] \in {Unknown, response}
                /\ memo' = IF stable
                           THEN [memo EXCEPT !.feed[d - Epoch] = response]
                           ELSE memo
                /\ LET merged == replay_date(run_df, run_type, d, response) IN
                   IF IsError(merged)
                   THEN pc' = "failed" /\ UNCHANGED run_df
                   ELSE pc' = "replay" /\ run_df' = merged
    /\ UNCHANGED <<run_type, varying, stable, file, now, cfg, df_in, prev, planned>>
    /\ UNCHANGED harness_vars

\* The end of insert_tmdb_latest_changes: return align_id_col(run_df).
AlignAfterReplay ==
    /\ pc = "replay"
    /\ plan = <<>>
    /\ df_prev' = run_df
    /\ LET aligned == align_id_col(run_df) IN
       IF IsError(aligned)
       THEN pc' = "failed" /\ UNCHANGED run_df
       ELSE pc' = "export" /\ run_df' = aligned
    /\ UNCHANGED <<run_type, varying, stable, file, now, cfg, df_in, plan, fetched, memo, prev, planned>>
    /\ UNCHANGED harness_vars

\* update_tmdb_export_flag with the export files downloaded now.
UpdateExportFlag ==
    /\ pc = "export"
    /\ df_prev' = run_df
    /\ \E files \in ExportFiles(varying, run_type) :
        /\ stable => memo.exports \in {Unknown, files}
        /\ memo' = [memo EXCEPT !.exports = files]
        /\ LET flagged == update_tmdb_export_flag(run_df, tmdb_export(run_type, files)) IN
           IF IsError(flagged)
           THEN pc' = "failed" /\ UNCHANGED run_df
           ELSE pc' = "external" /\ run_df' = flagged
    /\ UNCHANGED <<run_type, varying, stable, file, now, cfg, df_in, plan, fetched, prev, planned>>
    /\ UNCHANGED harness_vars

\* insert_tmdb_external_ids: the selected ids are looked up one after the
\* other, and the results are merged unless a lookup raised.
InsertExternalIds(backfill_limit, refresh_limit) ==
    /\ pc = "external"
    /\ df_prev' = run_df
    /\ cfg' = [cfg EXCEPT !.backfill_limit = backfill_limit, !.refresh_limit = refresh_limit]
    /\ LET ids == ids_to_update(run_df, backfill_limit, refresh_limit)
           asked == {ids[i] : i \in DOMAIN ids}
           \* a stable upstream that fails a lookup fails every later run
           answered == IF stable
                       THEN {r \in ExternalIdsResponses(run_type) : r.status # 500}
                       ELSE ExternalIdsResponses(run_type)
       IN \E answers \in [asked -> answered] :
            /\ stable => \A i \in asked : memo.lookup[i] \in {Unknown, answers[i]}
            /\ memo' = [memo EXCEPT !.lookup =
                            [i \in FeedIds |-> IF i \in asked THEN answers[i] ELSE @[i]]]
            /\ LET out == insert_tmdb_external_ids(run_df, run_type, answers, now,
                                                   backfill_limit, refresh_limit)
               IN IF IsError(out)
                  THEN pc' = "failed" /\ UNCHANGED run_df
                  ELSE pc' = "check" /\ run_df' = out
    /\ UNCHANGED <<run_type, varying, stable, file, now, df_in, plan, fetched, prev, planned>>
    /\ UNCHANGED harness_vars

\* The mutant of writes: --dry-run is ignored.
writes_despite_dry_run(df, df2, dry_run) ==
    /\ ~ (height(df2) < height(df))
    /\ ~ IsError(change_summary(df, df2))

\* Whether main writes the frame process returned: not when it is shorter than
\* the loaded one (exit(1)), when change_summary raises, or under --dry-run.
writes(df, df2, dry_run) ==
    /\ ~ (height(df2) < height(df))
    /\ ~ IsError(change_summary(df, df2))
    /\ ~ dry_run

\* main after process returned.
Finish(dry_run) ==
    /\ pc = "check"
    /\ pc' = "idle"
    /\ file' = IF writes(df_in, run_df, dry_run) THEN run_df ELSE file
    /\ prev' = IF stable /\ writes(df_in, run_df, dry_run)
               THEN [valid |-> TRUE, out |-> run_df, cfg |-> cfg, now |-> now,
                     fetched |-> fetched]
               ELSE NoPrev
    /\ cfg' = NoCfg
    /\ df_in' = NoFrame /\ df_prev' = NoFrame /\ run_df' = NoFrame
    /\ planned' = <<>> /\ plan' = <<>> /\ fetched' = <<>>
    /\ memo' = IF stable THEN memo ELSE NoMemo
    /\ UNCHANGED <<run_type, varying, stable, now>>
    /\ UNCHANGED harness_vars

\* An exception left main: nothing is written.
Abort ==
    /\ pc = "failed"
    /\ pc' = "idle"
    /\ prev' = NoPrev
    /\ cfg' = NoCfg
    /\ df_in' = NoFrame /\ df_prev' = NoFrame /\ run_df' = NoFrame
    /\ planned' = <<>> /\ plan' = <<>> /\ fetched' = <<>>
    /\ memo' = IF stable THEN memo ELSE NoMemo
    /\ UNCHANGED <<run_type, varying, stable, file, now>>
    /\ UNCHANGED harness_vars

\* Time passes between two runs.
Tick ==
    /\ pc = "idle"
    /\ now + 1 < datetime_of(LastDay + 1)
    /\ now' = now + 1
    /\ UNCHANGED <<run_type, varying, stable, file, cfg, pc, df_in, df_prev, run_df, planned, plan, fetched, memo, prev>>
    /\ UNCHANGED harness_vars

Next ==
    \/ \E days_limit \in DaysLimits : Start(days_limit)
    \/ ReplayDate
    \/ AlignAfterReplay
    \/ UpdateExportFlag
    \/ \E backfill_limit, refresh_limit \in Limits(varying) :
         InsertExternalIds(backfill_limit, refresh_limit)
    \/ \E dry_run \in BOOLEAN : Finish(dry_run)
    \/ Abort
    \/ Tick

Spec == Init /\ [][Next]_vars

\* The same runs against an upstream that answers a repeated request the way
\* it answered it first; the last run that wrote its frame is remembered.
InitStable == InitRun(TRUE)
SpecStable == InitStable /\ [][Next]_vars

\* Repeated runs on one day against an unchanging upstream: the clock stands
\* still on a day up to MaxLag days after the epoch, and every run goes through
\* to its end.
InitProgress ==
    /\ run_type \in TmdbTypes
    /\ varying = "feed"
    /\ stable = TRUE
    /\ file = NoFile
    /\ now \in {datetime_of(TMDB_CHANGES_EPOCH(run_type) + k) : k \in 0..MaxLag}
    /\ pc = "idle"
    /\ cfg = NoCfg
    /\ df_in = NoFrame
    /\ df_prev = NoFrame
    /\ run_df = NoFrame
    /\ planned = <<>>
    /\ plan = <<>>
    /\ fetched = <<>>
    /\ memo = NoMemo
    /\ prev = NoPrev
    /\ call = "input" /\ arg_df = NoFrame /\ arg_other = NoFrame /\ ret = NoReturn

NextProgress ==
    \/ \E days_limit \in DaysLimits : Start(days_limit)
    \/ ReplayDate
    \/ AlignAfterReplay
    \/ UpdateExportFlag
    \/ \E backfill_limit, refresh_limit \in Limits(varying) :
         InsertExternalIds(backfill_limit, refresh_limit)
    \/ \E dry_run \in BOOLEAN : Finish(dry_run)
    \/ Abort

\* A step of a run: every action of NextProgress changes pc or extends fetched.
RunStep == pc' # pc \/ fetched' # fetched

\* A started run is carried to its end and another run follows it: a step of
\* NextProgress is enabled in every state, so its weak fairness is that steps
\* are taken again and again. A dry run is not repeated for ever: strong
\* fairness of the writing end of a run, which is enabled once per run.
SpecProgress ==
    /\ InitProgress
    /\ [][NextProgress]_vars
    /\ []<><<RunStep>>_vars
    /\ SF_vars(Finish(FALSE))

----------------------------------------------------------------------------
(* Properties of the keyed-table functions (checked under SpecPure).       *)

IdSeqOf(df) == [i \in DOMAIN df.rows |-> df.rows[i].id]
IdsOf(df) == {df.rows[i].id : i \in DOMAIN df.rows}
RowOf(df, id) == df.rows[CHOOSE i \in DOMAIN df.rows : df.rows[i].id = id]
Merged == call = "update_or_append" /\ ~ IsError(ret)

\* C1: update_or_append returns a frame whose id set is the union of the two id
\* sets; a row whose id is in both holds other's value in every column other
\* has and df's value in every column only df has; a row whose id is only in df
\* keeps all of df's values.
C1_MergeUnionDeltaWins ==
    Merged =>
        /\ IdsOf(ret) = IdsOf(arg_df) \cup IdsOf(arg_other)
        /\ \A i \in DOMAIN ret.rows :
            LET r == ret.rows[i]
                in_df == r.id \in IdsOf(arg_df)
                in_other == r.id \in IdsOf(arg_other)
            IN /\ (in_df /\ in_other) =>
                    \A n \in NameSet(ret.schema) :
                        IF n \in NameSet(arg_other.schema)
                        THEN r[n] = RowOf(arg_other, r.id)[n]
                        ELSE r[n] = RowOf(arg_df, r.id)[n]
               /\ (in_df /\ ~ in_other) =>
                    \A n \in NameSet(arg_df.schema) : r[n] = RowOf(arg_df, r.id)[n]

\* C1 witness: a merge of <<id, a, b>> with <<c, id, b>> in which one id is only
\* in df, one is in both (with different values of b) and one is only in other.
C1_Witness ==
    /\ Merged
    /\ columns(arg_df) = <<"id", "a", "b">>
    /\ columns(arg_other) = <<"c", "id", "b">>
    /\ IdsOf(arg_df) \ IdsOf(arg_other) # {}
    /\ IdsOf(arg_other) \ IdsOf(arg_df) # {}
    /\ \E x \in IdsOf(arg_df) \cap IdsOf(arg_other) :
        /\ RowOf(arg_df, x).b # RowOf(arg_other, x).b
        /\ RowOf(arg_df, x).a # Null
        /\ RowOf(ret, x).a = RowOf(arg_df, x).a

\* C2 as stated: for an id and a column present in both frames the output holds
\* other's value when it is non-null and df's value when other's value is null.
C2_Original_PrefersNonNull ==
    Merged =>
        \A x \in IdsOf(arg_df) \cap IdsOf(arg_other) :
            \A n \in NameSet(arg_df.schema) \cap NameSet(arg_other.schema) :
                RowOf(ret, x)[n] =
                    IF RowOf(arg_other, x)[n] # Null
                    THEN RowOf(arg_other, x)[n]
                    ELSE RowOf(arg_df, x)[n]

\* C2 amended: for an id and a column present in both frames the output holds
\* other's value, a null included: a null in other replaces df's value.
C2_DeltaValueWinsNullIncluded ==
    Merged =>
        \A x \in IdsOf(arg_df) \cap IdsOf(arg_other) :
            \A n \in NameSet(arg_df.schema) \cap NameSet(arg_other.schema) :
                RowOf(ret, x)[n] = RowOf(arg_other, x)[n]

\* C2 witness: other holds null where df holds a value, and the merge returns null.
C2_Witness ==
    /\ Merged
    /\ \E x \in IdsOf(arg_df) \cap IdsOf(arg_other) :
        /\ "b" \in NameSet(arg_df.schema) \cap NameSet(arg_other.schema)
        /\ RowOf(arg_df, x).b # Null
        /\ RowOf(arg_other, x).b = Null
        /\ RowOf(ret, x).b = Null

ExpectedColumns ==
    columns(arg_df) \o SelectSeq(columns(arg_other), LAMBDA n : n \notin NameSet(arg_df.schema))
TypesDisagree ==
    \E i \in DOMAIN arg_df.schema, j \in DOMAIN arg_other.schema :
        /\ arg_df.schema[i].name = arg_other.schema[j].name
        /\ arg_df.schema[i].dtype # arg_other.schema[j].dtype

\* C3: the columns of update_or_append(df, other) are df's columns in order
\* followed by the other-only columns in other's order; a df row whose id is not
\* in other has null in every other-only column and an other row whose id is not
\* in df has null in every df-only column; a column in both with different
\* declared types makes the call raise instead of returning a frame.
C3_SchemaUnion ==
    (call = "update_or_append") =>
        /\ TypesDisagree => IsError(ret)
        /\ ~ IsError(ret) =>
            /\ columns(ret) = ExpectedColumns
            /\ \A i \in DOMAIN ret.rows :
                LET r == ret.rows[i] IN
                /\ r.id \notin IdsOf(arg_other) =>
                    \A n \in NameSet(arg_other.schema) \ NameSet(arg_df.schema) : r[n] = Null
                /\ r.id \notin IdsOf(arg_df) =>
                    \A n \in NameSet(arg_df.schema) \ NameSet(arg_other.schema) : r[n] = Null

\* C3 witness: <<id, a, b>> merged with <<c, id, b>> gives <<id, a, b, c>>, with
\* a df-only row and an other-only row in the result.
C3_Witness ==
    /\ Merged
    /\ columns(arg_df) = <<"id", "a", "b">>
    /\ columns(arg_other) = <<"c", "id", "b">>
    /\ columns(ret) = <<"id", "a", "b", "c">>
    /\ \E x \in IdsOf(arg_df) \ IdsOf(arg_other) : RowOf(ret, x).c = Null
    /\ \E y \in IdsOf(arg_other) \ IdsOf(arg_df) :
        RowOf(ret, y).a = Null /\ RowOf(arg_other, y).c # Null

\* C4 as stated: every df row, updated or not, stays at its position among the
\* df rows, and the ids new in other follow in other's order.
C4_Original_FirstOccurrenceOrder ==
    Merged =>
        IdSeqOf(ret) =
            IdSeqOf(arg_df) \o SelectSeq(IdSeqOf(arg_other), LAMBDA x : x \notin IdsOf(arg_df))

\* C4 amended: last-occurrence order is kept: the df rows whose id is not in other
\* come first, in df's order, and every row of other (an update or a new id)
\* follows them in other's order, so an updated row moves behind the df rows
\* that were not updated.
C4_LastOccurrenceOrder ==
    Merged =>
        IdSeqOf(ret) =
            SelectSeq(IdSeqOf(arg_df), LAMBDA x : x \notin IdsOf(arg_other)) \o IdSeqOf(arg_other)

\* C4 witness: the first df row is updated by other and ends behind the second.
C4_Witness ==
    /\ Merged
    /\ Len(arg_df.rows) = 2
    /\ arg_df.rows[1].id \in IdsOf(arg_other)
    /\ arg_df.rows[2].id \notin IdsOf(arg_other)
    /\ ret.rows[1].id = arg_df.rows[2].id
    /\ ret.rows[2].id = arg_df.rows[1].id

\* C5: for a non-empty frame with unique ids, align_id_col returns exactly one
\* row per integer of 0..max(id), in ascending order, with the frame's columns
\* in the frame's order; a row whose id was in the frame keeps its values and a
\* row whose id was missing is null in every other column; an empty frame is
\* returned unchanged.
C5_AlignDense ==
    (call = "align_id_col") =>
        IF Len(arg_df.rows) = 0 THEN ret = arg_df
        ELSE LET m == CHOOSE x \in IdsOf(arg_df) : \A y \in IdsOf(arg_df) : y <= x IN
             /\ ~ IsError(ret)
             /\ columns(ret) = columns(arg_df)
             /\ IdSeqOf(ret) = [i \in 1..(m + 1) |-> i - 1]
             /\ \A i \in DOMAIN ret.rows :
                    IF ret.rows[i].id \in IdsOf(arg_df)
                    THEN ret.rows[i] = RowOf(arg_df, ret.rows[i].id)
                    ELSE \A n \in NameSet(ret.schema) \ {"id"} : ret.rows[i][n] = Null

\* C5 witness: a frame holding ids 2 and 0, in that order, is aligned to 0, 1, 2.
C5_Witness ==
    /\ call = "align_id_col"
    /\ IdSeqOf(arg_df) = <<2, 0>>
    /\ columns(arg_df) = <<"c", "id", "b">>
    /\ arg_df.rows[1].c # Null
    /\ IdSeqOf(ret) = <<0, 1, 2>>
    /\ ret.rows[2].c = Null

\* C6: change_summary reports added = the ids of new not in old, removed = the
\* ids of old not in new, updated = the ids in both whose rows differ in at least
\* one column (of old); so change_summary(T, T) reports +0 -0 ~0, nulls or not.
C6_ChangeSummaryCounts ==
    (call = "change_summary" /\ ~ IsError(ret)) =>
        /\ ret.added = Cardinality(IdsOf(arg_other) \ IdsOf(arg_df))
        /\ ret.removed = Cardinality(IdsOf(arg_df) \ IdsOf(arg_other))
        /\ ret.updated =
            Cardinality({x \in IdsOf(arg_df) \cap IdsOf(arg_other) :
                \E n \in NameSet(arg_df.schema) :
                    RowOf(arg_df, x)[n] # RowOf(arg_other, x)[n]})
        /\ (arg_df = arg_other) => (ret.added = 0 /\ ret.removed = 0 /\ ret.updated = 0)


----------------------------------------------------------------------------
(* Properties of a run (checked under Spec).                               *)

Planned == pc \in {"replay", "export", "external", "check"}
HasColumn(df, n) == \E k \in DOMAIN df.schema : df.schema[k].name = n
EpochOf(t) == CASE t = "movie" -> EpochMovie [] t = "tv" -> EpochTv [] OTHER -> EpochPerson
LatestDate(df) ==
    LET ds == {df.rows[i].date : i \in DOMAIN df.rows} \ {Null}
    IN CHOOSE m \in ds : \A x \in ds : x <= m

\* C7: tmdb_changes_backfill_date_range returns every date from its start to
\* today inclusive, ascending, with no gap and no repeat; the start is the
\* maximum of the date column minus one day for a non-empty frame that has a
\* date column, and the epoch of the type for an empty frame or one without a
\* date column.
C7_DateRange ==
    Planned =>
        LET start == IF df_in.rows = <<>> \/ ~ HasColumn(df_in, "date")
                     THEN EpochOf(run_type)
                     ELSE LatestDate(df_in) - 1
        IN /\ Len(planned) = (today - start) + 1
           /\ \A i \in DOMAIN planned : planned[i] = start + (i - 1)

\* C7 witness: a run that loaded a frame holding dates was planned from the day
\* before the latest date up to today, two dates at least.
C7_Witness ==
    /\ Planned
    /\ df_in.rows # <<>>
    /\ HasColumn(df_in, "date")
    /\ Len(planned) >= 2
    /\ planned[1] = LatestDate(df_in) - 1
    /\ planned[Len(planned)] = today

NeverFetched(df) ==
    IF HasColumn(df, "retrieved_at")
    THEN {i \in DOMAIN df.rows : df.rows[i].retrieved_at = Null}
    ELSE DOMAIN df.rows
FetchedCount(df) == height(df) - Cardinality(NeverFetched(df))
FirstOf(S, n) == {i \in S : Cardinality({j \in S : j < i}) < n}
Least(a, b) == IF a < b THEN a ELSE b

C9_MonotonicGrowth ==
    pc = "check" =>
        /\ height(run_df) >= height(df_in)
        /\ IdsOf(df_in) \subseteq IdsOf(run_df)
        /\ file # NoFile => height(run_df) >= height(file)

\* C9 witness: process returned more rows than the persisted frame it was given,
\* which had rows already.
C9_Witness ==
    /\ pc = "check"
    /\ file # NoFile
    /\ height(df_in) >= 1
    /\ height(run_df) > height(df_in)
    /\ IdsOf(df_in) \subseteq IdsOf(run_df)


----------------------------------------------------------------------------
(* Properties of two runs in succession (checked under SpecStable).        *)

\* The run that just returned is the second of two runs in succession: the run
\* before wrote its output, which is the frame this run loaded, and both runs
\* had the same limits, the same current date and the same upstream answers.
SecondRun ==
    /\ pc = "check"
    /\ prev.valid
    /\ prev.cfg = cfg
    /\ date_of(prev.now) = today
    /\ file = prev.out

IsSuffix(s, t) ==
    /\ Len(s) <= Len(t)
    /\ \A i \in DOMAIN s : s[i] = t[Len(t) - Len(s) + i]

\* The ids the feeds replayed by the run delivered.
ReplayedIds ==
    UNION {{memo.feed[fetched[k] - Epoch].results[j].id :
                j \in DOMAIN memo.feed[fetched[k] - Epoch].results} : k \in DOMAIN fetched}
\* The ids the lookup step of the run selected, by any of its policies.
SelectedIds ==
    LET ids == ids_to_update(df_prev, cfg.backfill_limit, cfg.refresh_limit)
    IN {ids[i] : i \in DOMAIN ids}
LookupColumns ==
    {"success", "retrieved_at", "imdb_numeric_id", "tvdb_id", "wikidata_numeric_id"}

\* C10 as stated: the second output equals the first in every row and every
\* column, except possibly retrieved_at of the rows the lookup step selected.
C10_Original_Idempotent ==
    SecondRun =>
        /\ IdSeqOf(run_df) = IdSeqOf(prev.out)
        /\ columns(run_df) = columns(prev.out)
        /\ \A x \in IdsOf(prev.out) : \A n \in NameSet(prev.out.schema) :
            \/ RowOf(run_df, x)[n] = RowOf(prev.out, x)[n]
            \/ n = "retrieved_at" /\ x \in SelectedIds

\* C10 amended: the second output holds every row of the first and the same
\* columns; in_export is unchanged; date and adult are unchanged for every id
\* that no feed replayed by the second run delivers, and for every id when the
\* second run replays only the last dates the first run replayed; the lookup
\* columns are unchanged for every row the second run does not select, and a
\* selected row holds the result of its second lookup, stamped with the clock of
\* the second run (so a backfill quota fetches further rows in the second run).
C10_SecondRunChanges ==
    SecondRun =>
        /\ IdsOf(prev.out) \subseteq IdsOf(run_df)
        /\ columns(run_df) = columns(prev.out)
        /\ IsSuffix(fetched, prev.fetched) => IdSeqOf(run_df) = IdSeqOf(prev.out)
        /\ \A x \in IdsOf(prev.out) :
            LET r1 == RowOf(prev.out, x)
                r2 == RowOf(run_df, x)
            IN /\ r2.in_export = r1.in_export
               /\ (x \notin ReplayedIds \/ IsSuffix(fetched, prev.fetched)) =>
                    \A n \in NameSet(prev.out.schema) \cap {"date", "adult"} : r2[n] = r1[n]
               /\ x \notin SelectedIds =>
                    \A n \in NameSet(prev.out.schema) \cap LookupColumns : r2[n] = r1[n]
               /\ x \in SelectedIds => r2.retrieved_at = now

\* C10 witness: a second run replayed the dates of the first, left a fetched row
\* alone and fetched a row the first run had not fetched.
C10_Witness ==
    /\ SecondRun
    /\ fetched # <<>>
    /\ IsSuffix(fetched, prev.fetched)
    /\ HasColumn(prev.out, "retrieved_at")
    /\ \E x, y \in IdsOf(prev.out) :
        /\ x \in SelectedIds
        /\ RowOf(prev.out, x).retrieved_at = Null
        /\ RowOf(run_df, x).success # Null
        /\ y \notin SelectedIds
        /\ RowOf(prev.out, y).retrieved_at # Null
        /\ RowOf(run_df, y) = RowOf(prev.out, y)


----------------------------------------------------------------------------
(* Properties of the command-line run (checked under Spec).                *)

\* C11: a run overwrites the persisted frame only when process returned a
\* frame, that frame has at least as many rows as the loaded one and --dry-run
\* is off, and then with exactly that frame; when a stage raised, when the row
\* count decreased or under --dry-run the persisted frame stays what it was.
C11_WriteOnlyOnSuccess ==
    [][ /\ file' # file =>
            /\ pc = "check"
            /\ height(run_df) >= height(df_in)
            /\ Finish(FALSE)
            /\ file' = run_df
        /\ pc = "failed" => file' = file
        /\ (pc = "check" /\ height(run_df) < height(df_in)) => file' = file
        /\ Finish(TRUE) => file' = file ]_vars

\* C11 witness: a frame was persisted by an earlier run, and the current run
\* raised while holding a frame that differs from the persisted one.
C11_Witness ==
    /\ pc = "failed"
    /\ file # NoFile
    /\ height(run_df) > height(file)


\* The ids the export files downloaded in the run list.
SnapshotIds ==
    LET listed(f) == {memo.exports[f][k] : k \in DOMAIN memo.exports[f]}
    IN UNION {listed(f) : f \in DOMAIN memo.exports}

\* C12: update_tmdb_export_flag returns the rows of its input in the same order
\* with every other column unchanged; in_export is true for the ids the export
\* lists and false for every other id, never null, whatever it held before; the
\* column keeps its position when the input had it and is the last one otherwise.
C12_ExportFlag ==
    pc = "external" =>
        /\ IdSeqOf(run_df) = IdSeqOf(df_prev)
        /\ columns(run_df) = IF HasColumn(df_prev, "in_export") THEN columns(df_prev)
                             ELSE Append(columns(df_prev), "in_export")
        /\ \A i \in DOMAIN run_df.rows :
            /\ \A n \in NameSet(df_prev.schema) \ {"in_export"} :
                    run_df.rows[i][n] = df_prev.rows[i][n]
            /\ run_df.rows[i].in_export =
                    IF run_df.rows[i].id \in SnapshotIds THEN 1 ELSE 0

\* C12 witness: a row flagged by an earlier run is no longer listed and loses
\* its flag, while another row is listed and flagged.
C12_Witness ==
    /\ pc = "external"
    /\ HasColumn(df_prev, "in_export")
    /\ \E i, j \in DOMAIN run_df.rows :
        /\ df_prev.rows[i].in_export = 1
        /\ run_df.rows[i].in_export = 0
        /\ run_df.rows[j].in_export = 1


\* C13: for every type tmdb_export returns a list sorted by ascending id in
\* which each id appears at most once, also for "movie" when the same id is in
\* the movie and in the collection file.
C13_ExportSortedUnique ==
    memo.exports # Unknown =>
        LET export == tmdb_export(run_type, memo.exports)
        IN \A i, j \in DOMAIN export.rows :
            i < j => export.rows[i].id < export.rows[j].id


UniqueNonNull(df) ==
    /\ \A i \in DOMAIN df.rows : df.rows[i].id # Null
    /\ \A i, j \in DOMAIN df.rows : i # j => df.rows[i].id # df.rows[j].id

\* What update_or_append returned inside the lookup step of the run.
LookupMerge ==
    LET ids == ids_to_update(df_prev, cfg.backfill_limit, cfg.refresh_limit)
        data == [i \in DOMAIN ids |->
                    tmdb_external_ids(run_type, ids[i], memo.lookup[ids[i]], now)]
    IN update_or_append(df_prev,
                        [schema |-> EXTERNAL_IDS_RESPONSE_SCHEMA(run_type), rows |-> data])

C15_ChangedSinceFetchDay ==
    (pc = "external" /\ HasColumn(run_df, "date") /\ HasColumn(run_df, "retrieved_at")) =>
        \A i \in DOMAIN run_df.rows :
            (run_df.rows[i].date # Null /\ run_df.rows[i].retrieved_at # Null) =>
                (changed_predicate(run_df)[i] = 1
                    <=> run_df.rows[i].date >= date_of(run_df.rows[i].retrieved_at))


\* C16: with refresh_limit = R > 0 and a retrieved_at column the Refresh policy
\* selects exactly min(R, f) rows, f being the number of rows with a non-null
\* retrieved_at: none with a null retrieved_at, none fetched later than a
\* fetched row it leaves out, and no more than R when rows are tied.
C16_RefreshQuota ==
    (pc = "check" /\ cfg.refresh_limit > 0 /\ HasColumn(df_prev, "retrieved_at")) =>
        LET R == cfg.refresh_limit
            fetched_rows == (DOMAIN df_prev.rows) \ NeverFetched(df_prev)
            selected == {i \in DOMAIN df_prev.rows : refresh_predicate(df_prev, R)[i] = 1}
        IN /\ selected \subseteq fetched_rows
           /\ Cardinality(selected) = Least(R, Cardinality(fetched_rows))
           /\ \A i \in selected : \A j \in fetched_rows \ selected :
                df_prev.rows[i].retrieved_at <= df_prev.rows[j].retrieved_at

\* C16 witness: two rows fetched at the same instant and a quota of one: the
\* lookup step returned having selected one of them.
C16_Witness ==
    /\ pc = "check"
    /\ cfg.refresh_limit = 1
    /\ HasColumn(df_prev, "retrieved_at")
    /\ height(df_prev) = 2
    /\ df_prev.rows[1].retrieved_at # Null
    /\ df_prev.rows[1].retrieved_at = df_prev.rows[2].retrieved_at
    /\ Cardinality({i \in DOMAIN df_prev.rows : refresh_predicate(df_prev, 1)[i] = 1}) = 1


LookupAnswered == {i \in FeedIds : memo.lookup[i] # Unknown}
LookupRefused == {i \in LookupAnswered : memo.lookup[i].status \notin {200, 404}}
IdentifierColumns == {"imdb_numeric_id", "tvdb_id", "wikidata_numeric_id"}

\* C17: a lookup answered "not found" leaves a row with success false and every
\* identifier null while the other selected ids are looked up and merged; a
\* lookup answered with any other error fails the step with nothing merged, and
\* nothing else does once the lookups are under way.
C17_NotFoundVersusError ==
    /\ (pc = "check" /\ SelectedIds # {}) =>
            /\ LookupRefused = {}
            /\ SelectedIds \subseteq LookupAnswered
            /\ \A i \in SelectedIds :
                 LET row == RowOf(run_df, i)
                 IN /\ row.retrieved_at = now
                    /\ row.success = (IF memo.lookup[i].status = 200 THEN 1 ELSE 0)
                    /\ memo.lookup[i].status = 404 =>
                         \A n \in IdentifierColumns : HasColumn(run_df, n) => row[n] = Null
    /\ (pc = "failed" /\ LookupAnswered # {}) =>
            /\ LookupRefused # {}
            /\ run_df = df_prev
    /\ (pc \in {"check", "failed"} /\ LookupRefused # {}) => pc = "failed"

\* C17 witness: one run looked up two ids, one answered "not found" and the
\* other found.
C17_Witness ==
    /\ pc = "check"
    /\ \E i, j \in SelectedIds :
         /\ memo.lookup[i].status = 404
         /\ memo.lookup[j].status = 200
         /\ RowOf(run_df, i).success = 0
         /\ RowOf(run_df, j).success = 1


FeedOf(d) == memo.feed[d - Epoch]
\* The events of the feed of date d that carry id i, in feed order.
EventsFor(d, i) == SelectSeq(FeedOf(d).results, LAMBDA e : e.id = i)
ReplayedDatesOf(i) == {fetched[k] : k \in {n \in DOMAIN fetched : EventsFor(fetched[n], i) # <<>>}}
Dense(df) == \A k \in DOMAIN df.rows : df.rows[k].id = k - 1

\* C18: insert_tmdb_latest_changes fetches the earliest days_limit dates of its
\* plan, in ascending order, each merged before the next is fetched; an id
\* delivered by several replayed dates holds the date and the adult value of
\* the latest of them; the frame it returns is dense.
C18_ReplayEarliestLatestWins ==
    /\ pc = "replay" =>
            /\ fetched \o plan = take(planned, cfg.days_limit)
            /\ Len(fetched) <= cfg.days_limit
            /\ \A k \in DOMAIN fetched :
                 /\ fetched[k] = planned[k]
                 /\ k > 1 => fetched[k - 1] < fetched[k]
                 /\ stable => \A i \in FeedIds :
                                EventsFor(fetched[k], i) # <<>> => i \in IdsOf(run_df)
    /\ pc = "export" =>
            /\ fetched = take(planned, cfg.days_limit)
            /\ Dense(run_df)
            /\ stable => \A i \in FeedIds : ReplayedDatesOf(i) # {} =>
                 LET latest == CHOOSE d \in ReplayedDatesOf(i) :
                                    \A e \in ReplayedDatesOf(i) : e <= d
                     events == EventsFor(latest, i)
                 IN /\ RowOf(run_df, i).date = latest
                    /\ RowOf(run_df, i).adult = events[Len(events)].adult

\* C18 witness: two dates were replayed, both delivered id 0 with different
\* adult values, and the returned frame holds the later one.
C18_Witness ==
    /\ pc = "export"
    /\ stable
    /\ Len(fetched) = 2
    /\ EventsFor(fetched[1], 0) # <<>>
    /\ EventsFor(fetched[2], 0) # <<>>
    /\ EventsFor(fetched[1], 0)[1].adult # EventsFor(fetched[2], 0)[1].adult
    /\ RowOf(run_df, 0).date = fetched[2]
    /\ RowOf(run_df, 0).adult = EventsFor(fetched[2], 0)[1].adult


\* C19: in every sequence of runs that starts from the empty table, whatever
\* days_limit, every date passed to tmdb_changes is on or after the epoch of
\* the type, so its assertion never fails.
C19_NeverBeforeEpoch ==
    \A k \in DOMAIN fetched : fetched[k] >= Epoch


\* The maximum date of a frame, Null when it has no date.
WatermarkOf(df) == IF HasColumn(df, "date") THEN max_date_of(df) ELSE Null
Watermark == IF file = NoFile THEN Null ELSE WatermarkOf(file)
\* Every feed answered so far delivered at least one event with an id.
FeedNonEmpty ==
    \A d \in DOMAIN memo.feed :
        \/ memo.feed[d] = Unknown
        \/ /\ memo.feed[d].status = 200
           /\ \E k \in DOMAIN memo.feed[d].results : memo.feed[d].results[k].id # Null
RunsWith(n) == pc # "idle" => cfg.days_limit = n
\* A run that went through left the maximum date as it found it.
Stalled == pc = "check" /\ WatermarkOf(run_df) = WatermarkOf(df_in)

\* C20: with today fixed and every feed non-empty and unchanging, repeated runs
\* with any one days_limit eventually write a table whose maximum date is
\* today, and no run that goes through leaves the maximum date unchanged while
\* it is before today.
C20_WatermarkProgress ==
    /\ \A n \in DaysLimits :
         ([]RunsWith(n) /\ []FeedNonEmpty) => <>(Watermark = today)
    /\ [](FeedNonEmpty /\ WatermarkOf(df_in) # today => ~ Stalled)


\* The date a frame stores for an id, Null when it stores none.
DateOf(df, i) ==
    IF HasColumn(df, "date") /\ i \in IdsOf(df) THEN RowOf(df, i).date ELSE Null
InRun == pc \in {"replay", "export", "external", "check"}

\* C21: against an unchanging feed, whatever days_limit, a run never moves the
\* date stored for an id to an earlier date than the one it loaded, replaying
\* the overlap day included, and never lowers the maximum date of the table.
C21_DateNeverRegresses ==
    (stable /\ InRun) =>
        /\ \A i \in IdsOf(df_in) :
             DateOf(df_in, i) # Null =>
                /\ DateOf(run_df, i) # Null
                /\ DateOf(run_df, i) >= DateOf(df_in, i)
        /\ WatermarkOf(df_in) # Null =>
                /\ WatermarkOf(run_df) # Null
                /\ WatermarkOf(run_df) >= WatermarkOf(df_in)

====
